---- MODULE Spec2Model ----
(***************************************************************************)
(* Verification model of the filesystem-administration agent:              *)
(*   basic_agent/mcp_file.py : BASE_DIR initialisation, the path sandbox   *)
(*                             (_resolve_safe, _coerce_into_base) and the  *)
(*                             read-only filesystem tools;                 *)
(*   basic_agent/agent.py    : MCPToolWrapper and run_one_turn.            *)
(* Paths are POSIX paths, held as the sequence of their components below   *)
(* the filesystem root "/".                                                *)
(***************************************************************************)
EXTENDS Integers, Sequences, FiniteSets, TLC

VARIABLES
    BASE_DIR,     \* mcp_file.BASE_DIR: the administered root, or None before import
    links,        \* the symbolic links of the host: canonical path -> target
    p_raw,        \* the path string handed to _resolve_safe: [abs, comps]
    p_res,        \* what _resolve_safe did with it, NotCalled before the call
    p_disp,       \* what _relative_display made of the path returned, NotDisplayed before
    pc,           \* run_one_turn: where the turn is
    mcp_tools,    \* MCPToolWrapper._tools: the cached catalog, None before the fetch
    fetches,      \* history: how often client.list_tools() answered
    messages,     \* run_one_turn: the transcript
    first,        \* the first completion's message (choices[0].message)
    idx,          \* position of the loop over tool_calls_raw
    final,        \* the second completion's message
    ret,          \* what run_one_turn returned, or the exception that left it
    trace,        \* history: completion calls, tool invocations and their results
    a_tc,         \* a tool-call request handed to _tc_function
    a_out,        \* the name and arguments it was normalised to
    env,          \* os.environ.get("FILESYSTEM_ADMIN_ROOT")
    host,         \* what the host has at the candidate root paths: none, file or dir
    boot,         \* the import of mcp_file: running, failed, or serving tools
    fs,           \* the managed directory: path below BASE_DIR -> what is there
    f_call,       \* the filesystem tool called and its arguments
    f_out,        \* what the tool returned or raised
    r_in,         \* function_make_response: the summary and the data handed in
    r_out         \* the ToolResult it built, NotRendered before the call

pathVars == <<links, p_raw, p_res, p_disp>>
turnVars == <<pc, mcp_tools, fetches, messages, first, idx, final, ret, trace>>
argVars == <<a_tc, a_out>>
bootVars == <<env, host, boot>>
fsVars == <<fs, f_call, f_out>>
renderVars == <<r_in, r_out>>
vars == <<BASE_DIR, pathVars, turnVars, argVars, bootVars, fsVars, renderVars>>
notTurn == <<BASE_DIR, pathVars, argVars, bootVars, fsVars, renderVars>>
notPath == <<turnVars, argVars, bootVars, fsVars, renderVars>>
notArgs == <<BASE_DIR, pathVars, turnVars, bootVars, fsVars, renderVars>>
notFs == <<BASE_DIR, pathVars, turnVars, argVars, bootVars, renderVars>>
notRender == <<BASE_DIR, pathVars, turnVars, argVars, bootVars, fsVars>>

\* Optional[T]: the empty set is None, {x} is the value x
NoneOpt == {}
Some(x) == {x}
The(opt) == CHOOSE x \in opt : TRUE

(***************************************************************************)
(* Bounds                                                                  *)
(***************************************************************************)
\* longest input path, in components
MaxLen == 3

(***************************************************************************)
(* Paths                                                                   *)
(***************************************************************************)
\* the components an input path is made of
Comp == {"a", "root", "ROOT", "lnk", "srv", ".", ".."}

\* the roots the process may have been started with (canonical directories)
Bases == {<<"srv", "root">>, <<"srv", "ROOT">>, <<"root", "root">>}

\* str.lower() on the components in use
lower(c) == IF c = "ROOT" THEN "root" ELSE c

IsPrefix(s, t) == Len(s) <= Len(t) /\ SubSeq(t, 1, Len(s)) = s

\* PurePath.relative_to(base) succeeds: base is the path or an ancestor of it
relative_to_ok(path, base) == IsPrefix(base, path)

\* Path(p).parts without the anchor: pathlib drops "." components, keeps ".."
PathParts(comps) == SelectSeq(comps, LAMBDA c : c # ".")

\* hosts: no link at all; a link inside the root that leaves it together
\* with a link outside the root that enters it; a link inside the root to
\* another entry of the root
LinkConfigs(base) ==
    { <<>>,
      (base \o <<"lnk">>) :> <<"etc">> @@ <<"lnk">> :> (base \o <<"a">>),
      (base \o <<"lnk">>) :> (base \o <<"a">>) }

IsLink(path, lk) == path \in DOMAIN lk

\* Path.resolve() (os.path.realpath, strict=False) of the absolute path done \o rest,
\* done being canonical already: ".." leaves the directory reached so far, a
\* symbolic link is replaced by its target, a missing component is kept.
RECURSIVE Walk(_, _, _)
Walk(done, rest, lk) ==
    IF rest = <<>> THEN done
    ELSE LET c == Head(rest)
             next == IF c = ".."
                     THEN (IF done = <<>> THEN <<>> ELSE SubSeq(done, 1, Len(done) - 1))
                     ELSE IF IsLink(done \o <<c>>, lk) THEN lk[done \o <<c>>]
                     ELSE done \o <<c>>
         IN Walk(next, Tail(rest), lk)

resolve(parts, lk) == Walk(<<>>, parts, lk)

\* the first place of x in seq, where the last one is meant
FirstIndex(seq, x) == CHOOSE i \in 1..Len(seq) :
                          seq[i] = x /\ \A j \in 1..(i - 1) : seq[j] # x

LastIndex(seq, x) == CHOOSE i \in 1..Len(seq) :
                         seq[i] = x /\ \A j \in (i + 1)..Len(seq) : seq[j] # x

BASE_NAME(base) == lower(base[Len(base)])

\* a mutant of _coerce_into_base that trusts the rejoined path without
\* canonicalising and re-checking it
CoerceUnchecked(path, base, lk) ==
    LET lowered == [i \in 1..Len(path) |-> lower(path[i])]
    IN IF \A i \in 1..Len(path) : lowered[i] # BASE_NAME(base) THEN NoneOpt
       ELSE Some(resolve(base \o SubSeq(path, LastIndex(lowered, BASE_NAME(base)) + 1, Len(path)), lk))

\* _coerce_into_base(path): None (the empty option), or the rejoined path under the root
_coerce_into_base(path, base, lk) ==
    LET lowered == [i \in 1..Len(path) |-> lower(path[i])]
    IN IF \A i \in 1..Len(path) : lowered[i] # BASE_NAME(base) THEN NoneOpt
       ELSE LET last_idx == LastIndex(lowered, BASE_NAME(base))
                suffix == SubSeq(path, last_idx + 1, Len(path))
                candidate == resolve(base \o suffix, lk)
            IN IF relative_to_ok(candidate, base) THEN Some(candidate) ELSE NoneOpt

NotCalled == [ok |-> FALSE, error |-> "not called"]
Rejected(path, base) == [ok |-> FALSE, error |-> "ValueError", path |-> path, root |-> base]
Resolved(path, via) == [ok |-> TRUE, path |-> path, via |-> via]

\* _resolve_safe(p): the canonical path inside the root ("direct" or through
\* the "coerced" fallback), or the outside-root rejection
_resolve_safe(p, base, lk) ==
    LET raw == PathParts(p.comps)
        path == IF ~p.abs THEN resolve(base \o raw, lk) ELSE resolve(raw, lk)
    IN IF relative_to_ok(path, base) THEN Resolved(path, "direct")
       ELSE LET fallback == _coerce_into_base(path, base, lk)
            IN IF fallback = NoneOpt THEN Rejected(path, base)
               ELSE Resolved(The(fallback), "coerced")

\* the text of a path: absolute or not, and its components
PathText(abs, comps) == [abs |-> abs, comps |-> comps]
NotDisplayed == [abs |-> FALSE, comps |-> <<"<none>">>]

\* _relative_display taking the path relative to the root's parent
RelativeDisplayFromParent(path, base) ==
    LET parent == SubSeq(base, 1, Len(base) - 1)
    IN IF relative_to_ok(path, parent)
       THEN PathText(FALSE, SubSeq(path, Len(parent) + 1, Len(path)))
       ELSE PathText(TRUE, path)

\* _relative_display(path): the path relative to BASE_DIR as text, "." for
\* BASE_DIR itself (str() of the empty relative path), the whole path when it
\* is not below BASE_DIR
_relative_display(path, base) ==
    IF relative_to_ok(path, base)
    THEN LET rel == SubSeq(path, Len(base) + 1, Len(path))
         IN IF rel = <<>> THEN PathText(FALSE, <<".">>) ELSE PathText(FALSE, rel)
    ELSE PathText(TRUE, path)

RECURSIVE SeqsUpTo(_, _)
SeqsUpTo(S, n) ==
    IF n = 0 THEN {<<>>}
    ELSE LET shorter == SeqsUpTo(S, n - 1)
         IN shorter \cup {Append(s, c) : s \in {t \in shorter : Len(t) = n - 1}, c \in S}

PathInputs == [abs : BOOLEAN, comps : SeqsUpTo(Comp, MaxLen)]

(***************************************************************************)
(* Python values as the agent sees them                                    *)
(***************************************************************************)
Absent == [t |-> "absent"]            \* no such attribute / key
PyNone == [t |-> "None"]
PyStr(s) == [t |-> "str", v |-> s]
PyInt(n) == [t |-> "int", v |-> n]
PyList(l) == [t |-> "list", v |-> l]
PyDict(d) == [t |-> "dict", v |-> d]  \* d: the set of <<key, value>> items

\* bool(x)
Truthy(x) ==
    CASE x.t \in {"absent", "None"} -> FALSE
      [] x.t = "str" -> x.v # ""
      [] x.t = "int" -> x.v # 0
      [] x.t = "list" -> x.v # <<>>
      [] x.t = "dict" -> x.v # {}
      [] OTHER -> TRUE

\* getattr(o, name, default) on an object, and o.get(name, default) on a dict
getattr(o, name, default) == IF o[name] = Absent THEN default ELSE o[name]
dict_get(o, name, default) == IF o[name] = Absent THEN default ELSE o[name]

\* x or ""  for a text value
OrEmpty(x) == IF Truthy(x) THEN x.v ELSE ""

(***************************************************************************)
(* JSON                                                                    *)
(***************************************************************************)
JsonEmptyObj == "{}"
JsonObj == "{\"dir_path\": \".\"}"
JsonArray == "[1]"
JsonNumber == "3"
JsonNull == "null"
JsonText == "\"x\""
NotJson == "{dir_path: "

DirArgs == {<<"dir_path", ".">>}
FileArgs == {<<"file_path", "missing.txt">>}
JsonFileObj == "{\"file_path\": \"missing.txt\"}"

\* json.loads(s): the value, or the JSONDecodeError
json_loads(s) ==
    CASE s = JsonEmptyObj -> [ok |-> TRUE, v |-> PyDict({})]
      [] s = JsonObj -> [ok |-> TRUE, v |-> PyDict(DirArgs)]
      [] s = JsonFileObj -> [ok |-> TRUE, v |-> PyDict(FileArgs)]
      [] s = JsonArray -> [ok |-> TRUE, v |-> PyList(<<1>>)]
      [] s = JsonNumber -> [ok |-> TRUE, v |-> PyInt(3)]
      [] s = JsonNull -> [ok |-> TRUE, v |-> PyNone]
      [] s = JsonText -> [ok |-> TRUE, v |-> PyStr("x")]
      [] OTHER -> [ok |-> FALSE, v |-> PyNone]

\* json.dumps(x, ensure_ascii=False)
json_dumps(x) ==
    CASE x = PyDict({}) -> JsonEmptyObj
      [] x = PyDict(DirArgs) -> JsonObj
      [] x = PyDict(FileArgs) -> JsonFileObj
      [] x = PyList(<<1>>) -> JsonArray
      [] x = PyInt(3) -> JsonNumber
      [] x = PyNone -> JsonNull
      [] x = PyStr("x") -> JsonText
      [] OTHER -> "?"

(***************************************************************************)
(* run_one_turn: normalising the model's message                           *)
(***************************************************************************)
\* a mutant of first_content that forgets the plain-mapping shape
FirstContentObjOnly(msg) ==
    IF msg.shape = "obj" THEN getattr(msg, "content", PyNone) ELSE PyNone

\* content of the first message
first_content(msg) ==
    LET content == IF msg.shape = "obj" THEN getattr(msg, "content", PyNone) ELSE PyNone
    IN IF content = PyNone /\ msg.shape = "dict"
       THEN dict_get(msg, "content", PyStr(""))
       ELSE content

\* tool_calls_raw of the first message
first_tool_calls(msg) ==
    LET raw == IF msg.shape = "obj" THEN getattr(msg, "tool_calls", PyNone) ELSE PyNone
    IN IF raw = PyNone /\ msg.shape = "dict"
       THEN dict_get(msg, "tool_calls", PyNone)
       ELSE raw

\* _tc_id(tc)
_tc_id(tc) ==
    IF tc.shape # "dict" THEN getattr(tc, "id", PyNone) ELSE dict_get(tc, "id", PyNone)

\* _tc_function(tc): <<name, args>>
_tc_function(tc) ==
    LET f == IF tc.shape # "dict" THEN getattr(tc, "function", PyNone)
             ELSE dict_get(tc, "function", PyNone)
    IN IF f = PyNone THEN <<PyNone, PyDict({})>>
       ELSE LET name == IF f.shape # "dict" THEN getattr(f, "name", PyNone)
                        ELSE dict_get(f, "name", PyNone)
                raw_args == IF f.shape # "dict" THEN getattr(f, "arguments", PyStr(JsonEmptyObj))
                            ELSE dict_get(f, "arguments", PyStr(JsonEmptyObj))
                args == IF raw_args.t = "str"
                        THEN (IF json_loads(raw_args.v).ok THEN json_loads(raw_args.v).v
                              ELSE PyDict({}))
                        ELSE IF raw_args.t = "dict" THEN raw_args
                        ELSE PyDict({})
            IN <<name, args>>

\* the text of a tool result: result_str
TextItem(s) == [text |-> PyStr(s)]
OtherItem == [text |-> Absent]
str_of_item == "<item>"
str_of_result == "<CallToolResult>"

RECURSIVE JoinLines(_)
JoinLines(items) ==
    IF items = <<>> THEN ""
    ELSE LET h == IF Head(items).text # Absent THEN Head(items).text.v ELSE str_of_item
         IN IF Len(items) = 1 THEN h ELSE h \o "\n" \o JoinLines(Tail(items))

result_str(result_raw) ==
    IF result_raw.content # Absent
    THEN (IF result_raw.content.t = "list" THEN JoinLines(result_raw.content.v)
          ELSE "<content>")
    ELSE str_of_result

\* the tool-call dict in OpenAI format
normalized(tc) ==
    [ id |-> OrEmpty(_tc_id(tc)),
      type |-> "function",
      function |-> [ name |-> _tc_function(tc)[1].v,
                     arguments |-> json_dumps(_tc_function(tc)[2]) ] ]

instruction == "<system instruction>"
user_input == "<user input>"

SystemMsg == [role |-> "system", content |-> instruction]
UserMsg == [role |-> "user", content |-> user_input]
AssistantMsg(content, tc) ==
    [role |-> "assistant", content |-> OrEmpty(content), tool_calls |-> <<normalized(tc)>>]
\* a mutant of the tool message that tags the result with the function name
ToolMsgNameAsId(tc, text) ==
    [ role |-> "tool", tool_call_id |-> _tc_function(tc)[1].v,
      name |-> _tc_function(tc)[1].v, content |-> text ]

ToolMsg(tc, text) ==
    [ role |-> "tool", tool_call_id |-> normalized(tc).id,
      name |-> _tc_function(tc)[1].v, content |-> text ]

(***************************************************************************)
(* What the model and the tool server may answer                           *)
(***************************************************************************)
\* most tool calls in one response
MaxCalls == 2

ToolNames == {"list_directory", "get_file_content"}
Catalogs == {<<>>, <<"list_directory", "get_file_content">>}

TcIds == {PyNone, PyStr("c1"), PyStr("c2")}

\* the tool-call requests of a response: without a function, without a name,
\* as objects with JSON-encoded arguments, as plain mappings with a mapping of
\* arguments
TcFunctions ==
    { PyNone,
      [shape |-> "obj", name |-> PyNone, arguments |-> PyStr(JsonObj)],
      [shape |-> "obj", name |-> PyStr("list_directory"), arguments |-> PyStr(JsonObj)],
      [shape |-> "dict", name |-> PyStr("get_file_content"), arguments |-> PyDict(FileArgs)] }

ToolCalls ==
    { [shape |-> IF f = PyNone THEN "dict" ELSE f.shape, id |-> i, function |-> f] :
          i \in TcIds, f \in TcFunctions }

Contents == {Absent, PyNone, PyStr("hello")}

FirstMessages ==
    [ shape : {"obj", "dict"},
      content : Contents,
      tool_calls : {Absent, PyNone} \cup {PyList(l) : l \in SeqsUpTo(ToolCalls, MaxCalls)} ]

FinalMessages ==
    [ shape : {"obj", "dict"},
      content : {PyNone, PyStr("done")},
      tool_calls : {PyNone, PyList(<<CHOOSE tc \in ToolCalls : _tc_function(tc)[1] # PyNone>>)} ]

\* a CallToolResult with two content parts, and a result without content
ToolResults ==
    { [content |-> PyList(<<TextItem("A"), OtherItem>>)],
      [content |-> Absent] }

ToolErrors == {"OutsideRoot", "NotFound", "WrongKind"}

NoMessage == [shape |-> "none"]
NotReturned == [kind |-> "running"]
Returned(text) == [kind |-> "return", value |-> text]
Raised(e) == [kind |-> "raise", error |-> e]

\* history events
CompletionEv(msgs, tools) == [e |-> "completion", messages |-> msgs, tools |-> tools]
InvokeEv(i, name, args, n) == [e |-> "invoke", i |-> i, name |-> name, args |-> args, at |-> n]
ResultEv(i) == [e |-> "result", i |-> i]
RaiseEv(i) == [e |-> "raise", i |-> i]

IdleTurn ==
    /\ pc = "idle"
    /\ mcp_tools = PyNone
    /\ fetches = 0
    /\ messages = <<>>
    /\ first = NoMessage
    /\ idx = 0
    /\ final = NoMessage
    /\ ret = NotReturned
    /\ trace = <<>>

NotNormalized == [called |-> FALSE]

IdleArgs ==
    /\ a_tc = [shape |-> "none"]
    /\ a_out = NotNormalized

Imported == [state |-> "serving"]

IdleBoot ==
    /\ env = Absent
    /\ host = <<>>
    /\ boot = Imported

NotRendered == [rendered |-> FALSE]

IdleRender ==
    /\ r_in = [summary |-> "", data |-> <<>>]
    /\ r_out = NotRendered

NoCall == [op |-> "none"]

IdleFs ==
    /\ fs = <<>>
    /\ f_call = NoCall
    /\ f_out = NotCalled

IdlePath ==
    /\ p_disp = NotDisplayed
    /\ links = <<>>
    /\ p_raw = [abs |-> FALSE, comps |-> <<>>]
    /\ p_res = NotCalled

(***************************************************************************)
(* run_one_turn                                                            *)
(***************************************************************************)
\* MCPToolWrapper.list_tools with a cache that an empty catalog does not fill
ListToolsRefetchEmpty(fetched) ==
    IF ~Truthy(mcp_tools)
    THEN /\ mcp_tools' = PyList(fetched)
         /\ fetches' = fetches + 1
    ELSE UNCHANGED <<mcp_tools, fetches>>

\* MCPToolWrapper.list_tools, lines 40-44: the catalog is fetched from the
\* transport, which answers with fetched, only while _tools is None; the
\* value returned is mcp_tools'
list_tools(fetched) ==
    IF mcp_tools = PyNone
    THEN /\ mcp_tools' = PyList(fetched)
         /\ fetches' = fetches + 1
    ELSE UNCHANGED <<mcp_tools, fetches>>

\* MCPToolWrapper.to_openai_tools, lines 50-84, of the catalog list_tools returned
to_openai_tools(tools) ==
    [ i \in 1..Len(tools.v) |-> [type |-> "function", function |-> [name |-> tools.v[i]]] ]

\* main, lines 242-249: the catalog is listed once before the first turn; a
\* failure of the transport is printed and the loop starts all the same
MainListTools ==
    /\ pc = "main"
    /\ \/ \E fetched \in Catalogs : list_tools(fetched)
       \/ UNCHANGED <<mcp_tools, fetches>>
    /\ pc' = "start"
    /\ UNCHANGED <<messages, first, idx, final, ret, trace>>
    /\ UNCHANGED notTurn

\* line 127: client.list_tools() raises inside to_openai_tools; the exception
\* leaves run_one_turn before any completion call and nothing is cached
ListToolsFails ==
    /\ pc = "start"
    /\ mcp_tools = PyNone
    /\ ret' = Raised("TransportFailure")
    /\ pc' = "raised"
    /\ UNCHANGED <<mcp_tools, fetches, messages, first, idx, final, trace>>
    /\ UNCHANGED notTurn

\* lines 127-141: build the tools, start the transcript, first completion call
StartTurn ==
    /\ pc = "start"
    /\ \E fetched \in Catalogs : list_tools(fetched)
    /\ trace' = <<CompletionEv(<<SystemMsg, UserMsg>>, to_openai_tools(mcp_tools'))>>
    /\ messages' = <<SystemMsg, UserMsg>>
    /\ pc' = "model_call_1"
    /\ UNCHANGED <<first, idx, final, ret>>
    /\ UNCHANGED notTurn

\* lines 143-178: the first response; without tool calls the turn returns
FirstResponse ==
    /\ pc = "model_call_1"
    /\ \E msg \in FirstMessages :
        /\ first' = msg
        /\ IF ~Truthy(first_tool_calls(msg))
           THEN /\ ret' = Returned(OrEmpty(first_content(msg)))
                /\ pc' = "done"
                /\ idx' = idx
           ELSE /\ pc' = "executing"
                /\ idx' = 1
                /\ ret' = ret
    /\ UNCHANGED <<mcp_tools, fetches, messages, final, trace>>
    /\ UNCHANGED notTurn

\* a completion call raises (the service fails): nothing catches it
CompletionFails ==
    /\ pc \in {"model_call_1", "model_call_2"}
    /\ ret' = Raised("UpstreamFailure")
    /\ pc' = "raised"
    /\ UNCHANGED <<mcp_tools, fetches, messages, first, idx, final, trace>>
    /\ UNCHANGED notTurn

\* a mutant of the loop that walks the requests from the last to the first
CurrentCallReversed ==
    first_tool_calls(first).v[Len(first_tool_calls(first).v) + 1 - idx]

\* tc of the loop "for tc in tool_calls_raw"
CurrentCall == first_tool_calls(first).v[idx]

\* lines 183-185: a request without a function name is passed over
SkipCall ==
    /\ pc = "executing"
    /\ idx <= Len(first_tool_calls(first).v)
    /\ ~Truthy(_tc_function(CurrentCall)[1])
    /\ idx' = idx + 1
    /\ UNCHANGED <<pc, mcp_tools, fetches, messages, first, final, ret, trace>>
    /\ UNCHANGED notTurn

\* line 186: await mcp_tool.call(func_name, args)
InvokeTool ==
    /\ pc = "executing"
    /\ idx <= Len(first_tool_calls(first).v)
    /\ Truthy(_tc_function(CurrentCall)[1])
    /\ trace' = Append(trace, InvokeEv(idx, _tc_function(CurrentCall)[1].v,
                                       _tc_function(CurrentCall)[2], Len(messages)))
    /\ pc' = "tool_call"
    /\ UNCHANGED <<mcp_tools, fetches, messages, first, idx, final, ret>>
    /\ UNCHANGED notTurn

\* lines 189-225: the call returned; its pair of messages is appended
ToolReturns ==
    /\ pc = "tool_call"
    /\ \E result_raw \in ToolResults :
        messages' = messages \o << AssistantMsg(first_content(first), CurrentCall),
                                   ToolMsg(CurrentCall, result_str(result_raw)) >>
    /\ trace' = Append(trace, ResultEv(idx))
    /\ idx' = idx + 1
    /\ pc' = "executing"
    /\ UNCHANGED <<mcp_tools, fetches, first, final, ret>>
    /\ UNCHANGED notTurn

\* lines 46-48, 186: client.call_tool raises for a tool that failed, and neither
\* MCPToolWrapper.call nor run_one_turn catches it
ToolRaises ==
    /\ pc = "tool_call"
    /\ \E e \in ToolErrors : ret' = Raised(e)
    /\ trace' = Append(trace, RaiseEv(idx))
    /\ pc' = "raised"
    /\ UNCHANGED <<mcp_tools, fetches, messages, first, idx, final>>
    /\ UNCHANGED notTurn

\* a mutant of the second completion call that attaches the tools again
SecondCallWithTools ==
    /\ pc = "executing"
    /\ idx > Len(first_tool_calls(first).v)
    /\ trace' = Append(trace, CompletionEv(messages, mcp_tools))
    /\ pc' = "model_call_2"
    /\ UNCHANGED <<mcp_tools, fetches, messages, first, idx, final, ret>>
    /\ UNCHANGED notTurn

\* lines 228-231: the second completion call, without the tools
SecondCall ==
    /\ pc = "executing"
    /\ idx > Len(first_tool_calls(first).v)
    /\ trace' = Append(trace, CompletionEv(messages, Absent))
    /\ pc' = "model_call_2"
    /\ UNCHANGED <<mcp_tools, fetches, messages, first, idx, final, ret>>
    /\ UNCHANGED notTurn

\* final_msg's text
final_content(msg) ==
    LET a == IF msg.shape = "obj" THEN getattr(msg, "content", PyNone) ELSE PyNone
        b == IF msg.shape = "dict" THEN dict_get(msg, "content", PyNone) ELSE PyStr("")
    IN IF Truthy(a) THEN a.v ELSE IF Truthy(b) THEN b.v ELSE ""

\* lines 232-233: the final response is returned
FinalResponse ==
    /\ pc = "model_call_2"
    /\ \E msg \in FinalMessages :
        /\ final' = msg
        /\ ret' = Returned(final_content(msg))
    /\ pc' = "done"
    /\ UNCHANGED <<mcp_tools, fetches, messages, first, idx, trace>>
    /\ UNCHANGED notTurn

\* main, lines 254-272: the next turn starts afresh; only the wrapper's cache stays
NewTurn ==
    /\ pc \in {"done", "raised"}
    /\ pc' = "start"
    /\ messages' = <<>>
    /\ first' = NoMessage
    /\ idx' = 0
    /\ final' = NoMessage
    /\ ret' = NotReturned
    /\ trace' = <<>>
    /\ UNCHANGED <<mcp_tools, fetches>>
    /\ UNCHANGED notTurn

InitTurn ==
    /\ IdleRender
    /\ BASE_DIR = <<"srv", "root">>
    /\ IdlePath
    /\ IdleArgs
    /\ IdleBoot
    /\ IdleFs
    /\ pc = "main"
    /\ mcp_tools = PyNone
    /\ fetches = 0
    /\ messages = <<>>
    /\ first = NoMessage
    /\ idx = 0
    /\ final = NoMessage
    /\ ret = NotReturned
    /\ trace = <<>>

NextTurn ==
    \/ MainListTools
    \/ ListToolsFails
    \/ StartTurn
    \/ FirstResponse
    \/ CompletionFails
    \/ SkipCall
    \/ InvokeTool
    \/ ToolReturns
    \/ ToolRaises
    \/ SecondCall
    \/ FinalResponse
    \/ NewTurn

Spec == InitTurn /\ [][NextTurn]_vars

(***************************************************************************)
(* Import of mcp_file: BASE_DIR = _determine_base_dir()                    *)
(***************************************************************************)
NoBaseDir == <<"<unset>">>

\* DEFAULT_ADMIN_ROOT, the absolute path built into the module
DEFAULT_ADMIN_ROOT == [abs |-> TRUE, comps |-> <<"Users", "folder_de_administrat">>]

Home == <<"home">>
Cwd == <<"work">>

\* the values the environment variable may hold
EnvPaths ==
    { [abs |-> TRUE, comps |-> <<"srv", "root">>],
      [abs |-> TRUE, comps |-> <<"srv", "lnk">>],
      [abs |-> FALSE, comps |-> <<"data">>],
      [abs |-> FALSE, comps |-> <<"~", "data">>] }
EnvValues == {Absent, PyStr([abs |-> FALSE, comps |-> <<>>])} \cup {PyStr(p) : p \in EnvPaths}

\* an environment value is falsy when unset or the empty string
EnvIsSet(e) == e # Absent /\ e.v.comps # <<>>

HostPaths == { <<"Users", "folder_de_administrat">>, <<"srv", "root">>,
               <<"work", "data">>, <<"home", "data">> }
HostLinks == <<"srv", "lnk">> :> <<"srv", "root">>

\* Path.expanduser(): a leading "~" is the home directory
expanduser(p) ==
    IF p.comps # <<>> /\ p.comps[1] = "~"
    THEN [abs |-> TRUE, comps |-> Home \o Tail(p.comps)]
    ELSE p

\* Path(configured_path).expanduser().resolve()
resolve_configured(p, lk) ==
    LET q == expanduser(p)
    IN IF q.abs THEN resolve(PathParts(q.comps), lk)
       ELSE resolve(Cwd \o PathParts(q.comps), lk)

KindAt(path, h) == IF path \in DOMAIN h THEN h[path] ELSE "none"

\* a mutant of _determine_base_dir that does not check for a directory
DetermineBaseDirNoDirCheck(e, h, lk) ==
    LET configured_path == IF EnvIsSet(e) THEN e.v ELSE DEFAULT_ADMIN_ROOT
        resolved == resolve_configured(configured_path, lk)
    IN IF KindAt(resolved, h) = "none"
       THEN [state |-> "failed", error |-> "FileNotFoundError", path |-> resolved]
       ELSE [state |-> "serving", path |-> resolved]

\* _determine_base_dir(): the resolved root, or the exception that ends the import
_determine_base_dir(e, h, lk) ==
    LET configured_path == IF EnvIsSet(e) THEN e.v ELSE DEFAULT_ADMIN_ROOT
        resolved == resolve_configured(configured_path, lk)
    IN IF KindAt(resolved, h) = "none"
       THEN [state |-> "failed", error |-> "FileNotFoundError", path |-> resolved]
       ELSE IF KindAt(resolved, h) # "dir"
       THEN [state |-> "failed", error |-> "NotADirectoryError", path |-> resolved]
       ELSE [state |-> "serving", path |-> resolved]

InitBoot ==
    /\ IdleRender
    /\ BASE_DIR = NoBaseDir
    /\ links = HostLinks
    /\ p_raw = [abs |-> FALSE, comps |-> <<>>]
    /\ p_res = NotCalled
    /\ p_disp = NotDisplayed
    /\ IdleTurn
    /\ IdleArgs
    /\ IdleFs
    /\ env \in EnvValues
    /\ host \in [HostPaths -> {"none", "file", "dir"}]
    /\ boot = [state |-> "importing"]

\* line 44: the module is imported
ImportModule ==
    /\ boot.state = "importing"
    /\ boot' = _determine_base_dir(env, host, links)
    /\ BASE_DIR' = IF boot'.state = "serving" THEN boot'.path ELSE BASE_DIR
    /\ UNCHANGED <<env, host, pathVars, turnVars, argVars, fsVars, renderVars>>

\* the paths the tools are asked about once the server runs
ServedPaths ==
    { [abs |-> FALSE, comps |-> <<>>],
      [abs |-> FALSE, comps |-> <<"a">>],
      [abs |-> FALSE, comps |-> <<"..">>] }

\* a tool is served: it reads BASE_DIR through _resolve_safe
ServeTool ==
    /\ boot.state = "serving"
    /\ \E p \in ServedPaths :
        /\ p_raw' = p
        /\ p_res' = _resolve_safe(p, BASE_DIR, links)
    /\ UNCHANGED <<BASE_DIR, links, p_disp, bootVars, turnVars, argVars, fsVars, renderVars>>

NextBoot ==
    \/ ImportModule
    \/ ServeTool

SpecBoot == InitBoot /\ [][NextBoot]_vars

(***************************************************************************)
(* The managed directory and the filesystem tools                          *)
(***************************************************************************)
\* the paths below BASE_DIR at which something may be
FsPaths == { <<"d">>, <<"f.txt">>, <<".h">>, <<"d", "g.txt">> }

\* sorted(): the paths in use, in the order of their text
PathOrder == << <<".h">>, <<"d">>, <<"d", "g.txt">>, <<"f.txt">> >>

\* file sizes in bytes
MiB == 1048576
FileSizes == {MiB, MiB + 1424}

\* what is at a path: nothing, a file or a directory. acc says what the host
\* lets the process do with it: "ok"; "denied" (stat raises PermissionError);
\* "unreadable" (a directory whose listing raises PermissionError); "gone"
\* (listed by its parent but vanished before stat: FileNotFoundError)
NoNode == [kind |-> "none"]
FileNodes == [kind : {"file"}, acc : {"ok", "denied", "gone"}, size : FileSizes]
DirNodes == [kind : {"dir"}, acc : {"ok", "denied", "unreadable", "gone"}]
RootNode == [kind |-> "dir", acc |-> "ok"]

Parent(rel) == SubSeq(rel, 1, Len(rel) - 1)
Name(rel) == rel[Len(rel)]

NodeAt(rel, f) ==
    IF rel = <<>> THEN RootNode ELSE IF rel \in DOMAIN f THEN f[rel] ELSE NoNode

\* the trees a host can hold: an entry lies in a directory that can be listed
FsStates ==
    { f \in [FsPaths -> {NoNode} \cup FileNodes \cup DirNodes] :
        /\ \A q \in FsPaths :
            f[q] # NoNode => NodeAt(Parent(q), f) = RootNode
        /\ f[<<".h">>] \in {NoNode, [kind |-> "file", acc |-> "ok", size |-> MiB]} }

\* Path.exists(), Path.is_dir(), Path.is_file(): "yes", "no", or the
\* PermissionError that stat raised
exists(n) ==
    IF n.kind = "none" \/ n.acc = "gone" THEN "no"
    ELSE IF n.acc = "denied" THEN "PermissionError" ELSE "yes"
is_dir(n) == IF exists(n) # "yes" THEN exists(n) ELSE IF n.kind = "dir" THEN "yes" ELSE "no"
is_file(n) == IF exists(n) # "yes" THEN exists(n) ELSE IF n.kind = "file" THEN "yes" ELSE "no"

\* the entries of a directory, as Path.iterdir() and os.scandir() name them
Children(rel, f) == { q \in FsPaths : Len(q) = Len(rel) + 1 /\ Parent(q) = rel /\ f[q] # NoNode }

\* Path.iterdir() on a path: the exception it raises, or "ok"
iterdir_error(n) ==
    IF n.kind = "none" \/ n.acc = "gone" THEN "FileNotFoundError"
    ELSE IF n.kind # "dir" THEN "NotADirectoryError"
    ELSE IF n.acc \in {"unreadable", "denied"} THEN "PermissionError"
    ELSE "ok"

\* a set of paths as the sorted sequence
Sorted(S) == SelectSeq(PathOrder, LAMBDA q : q \in S)

\* Path.rglob("*") below rel: every entry of every directory that can be
\* listed; a directory that cannot be listed or examined is passed over
RECURSIVE rglob(_, _)
rglob(rel, f) ==
    Children(rel, f) \cup
    UNION { rglob(q, f) : q \in { c \in Children(rel, f) :
                                     f[c].kind = "dir" /\ f[c].acc = "ok" } }

\* the relative path as text
RelStr(rel) == IF rel = <<>> THEN "." ELSE IF Len(rel) = 1 THEN rel[1] ELSE rel[1] \o "/" \o rel[2]

Raise(e) == [ok |-> FALSE, error |-> e]

\* the target of a tool: _resolve_safe, then the path below BASE_DIR
Target(p) == _resolve_safe(p, BASE_DIR, links)
RelOf(path) == SubSeq(path, Len(BASE_DIR) + 1, Len(path))

\* get_file_content(file_path)
get_file_content(p, f) ==
    LET r == Target(p)
    IN IF ~r.ok THEN Raise(r.error)
       ELSE LET n == NodeAt(RelOf(r.path), f)
            IN IF is_file(n) = "PermissionError" THEN Raise("PermissionError")
               ELSE IF is_file(n) # "yes" THEN Raise("FileNotFoundError")
               ELSE [ok |-> TRUE, path |-> RelStr(RelOf(r.path)), size_bytes |-> n.size]

\* the names list_directory collects: an entry whose is_dir() raises
\* PermissionError is passed over, a directory gets a trailing "/"
ListedEntries(rel, f) ==
    LET kept == { q \in Children(rel, f) : is_dir(f[q]) # "PermissionError" }
        sorted == Sorted(kept)
    IN [ i \in 1..Len(sorted) |->
           Name(sorted[i]) \o (IF is_dir(f[sorted[i]]) = "yes" THEN "/" ELSE "") ]

\* list_directory telling a missing path (FileNotFoundError) from a file
ListDirectoryNotFound(p, f) ==
    LET r == Target(p)
    IN IF ~r.ok THEN Raise(r.error)
       ELSE LET rel == RelOf(r.path)
                n == NodeAt(rel, f)
            IN IF exists(n) = "PermissionError" THEN Raise("PermissionError")
               ELSE IF exists(n) = "no" THEN Raise("FileNotFoundError")
               ELSE IF is_dir(n) # "yes" THEN Raise("NotADirectoryError")
               ELSE IF iterdir_error(n) # "ok" THEN Raise(iterdir_error(n))
               ELSE [ ok |-> TRUE, path |-> RelStr(rel),
                      count |-> Len(ListedEntries(rel, f)),
                      entries |-> ListedEntries(rel, f) ]

\* list_directory(dir_path)
list_directory(p, f) ==
    LET r == Target(p)
    IN IF ~r.ok THEN Raise(r.error)
       ELSE LET rel == RelOf(r.path)
                n == NodeAt(rel, f)
            IN IF exists(n) = "PermissionError" THEN Raise("PermissionError")
               ELSE IF exists(n) = "no" \/ is_dir(n) # "yes" THEN Raise("NotADirectoryError")
               ELSE IF iterdir_error(n) # "ok" THEN Raise(iterdir_error(n))
               ELSE [ ok |-> TRUE, path |-> RelStr(rel),
                      count |-> Len(ListedEntries(rel, f)),
                      entries |-> ListedEntries(rel, f) ]

\* get_file_info(file_path)
get_file_info(p, f) ==
    LET r == Target(p)
    IN IF ~r.ok THEN Raise(r.error)
       ELSE LET n == NodeAt(RelOf(r.path), f)
            IN IF exists(n) = "PermissionError" THEN Raise("PermissionError")
               ELSE IF exists(n) = "no" THEN Raise("FileNotFoundError")
               ELSE [ ok |-> TRUE, path |-> RelStr(RelOf(r.path)), type |-> n.kind,
                      absolute_path |-> r.path ]

\* fnmatch.fnmatch(rel_str, pattern) for the patterns in use
SearchPatterns == {"*", "*.txt", "d"}
fnmatch(rel, pattern) ==
    \/ pattern = "*"
    \/ pattern = "*.txt" /\ Name(rel) \in {"f.txt", "g.txt"}
    \/ pattern = "d" /\ rel = <<"d">>

\* the first exception of a sequence of steps, "ok" when none raises
RECURSIVE FirstError(_)
FirstError(errs) ==
    IF errs = <<>> THEN "ok"
    ELSE IF Head(errs) # "ok" THEN Head(errs) ELSE FirstError(Tail(errs))

\* search_files(pattern, dir_path): item.is_dir() of a match is not guarded
search_files(pattern, p, f) ==
    LET r == Target(p)
    IN IF ~r.ok THEN Raise(r.error)
       ELSE LET rel == RelOf(r.path)
                n == NodeAt(rel, f)
                hits == Sorted({ q \in rglob(rel, f) : fnmatch(q, pattern) })
                errs == [ i \in 1..Len(hits) |->
                            IF is_dir(f[hits[i]]) = "PermissionError"
                            THEN "PermissionError" ELSE "ok" ]
            IN IF exists(n) = "PermissionError" THEN Raise("PermissionError")
               ELSE IF exists(n) = "no" \/ is_dir(n) # "yes" THEN Raise("NotADirectoryError")
               ELSE IF FirstError(errs) # "ok" THEN Raise(FirstError(errs))
               ELSE [ ok |-> TRUE, base_path |-> RelStr(rel), pattern |-> pattern,
                      matches |-> [ i \in 1..Len(hits) |->
                          RelStr(hits[i]) \o (IF is_dir(f[hits[i]]) = "yes" THEN "/" ELSE "") ] ]

IsHidden(name) == name = ".h"

\* get_directory_tree._tree(current, prefix, depth): the lines, or the
\* exception of the first step that raises; nothing in it is guarded
RECURSIVE _tree(_, _, _, _, _)
RECURSIVE TreeEntries(_, _, _, _, _, _)
TreeEntries(entries, idx0, prefix, depth, max_depth, f) ==
    IF idx0 > Len(entries) THEN [ok |-> TRUE, lines |-> <<>>]
    ELSE LET entry == entries[idx0]
             is_last == idx0 = Len(entries)
             \* the source's backquote is written "+": a TLA+ string holds none
             connector == IF is_last THEN "+-- " ELSE "|-- "
             extension == IF is_last THEN "    " ELSE "|   "
         IN IF is_dir(f[entry]) = "PermissionError" THEN Raise("PermissionError")
            ELSE LET line == prefix \o connector \o Name(entry)
                                 \o (IF is_dir(f[entry]) = "yes" THEN "/" ELSE "")
                     below == IF is_dir(f[entry]) = "yes"
                              THEN _tree(entry, prefix \o extension, depth + 1, max_depth, f)
                              ELSE [ok |-> TRUE, lines |-> <<>>]
                     rest == TreeEntries(entries, idx0 + 1, prefix, depth, max_depth, f)
                 IN IF ~below.ok THEN below
                    ELSE IF ~rest.ok THEN rest
                    ELSE [ok |-> TRUE, lines |-> <<line>> \o below.lines \o rest.lines]

_tree(current, prefix, depth, max_depth, f) ==
    IF depth >= max_depth THEN [ok |-> TRUE, lines |-> <<>>]
    ELSE IF iterdir_error(NodeAt(current, f)) # "ok" THEN Raise(iterdir_error(NodeAt(current, f)))
    ELSE TreeEntries(SelectSeq(Sorted(Children(current, f)), LAMBDA q : ~IsHidden(Name(q))),
                     1, prefix, depth, max_depth, f)

\* get_directory_tree(dir_path, max_depth)
get_directory_tree(p, max_depth, f) ==
    LET r == Target(p)
    IN IF ~r.ok THEN Raise(r.error)
       ELSE LET rel == RelOf(r.path)
                n == NodeAt(rel, f)
                t == _tree(rel, "", 0, max_depth, f)
            IN IF is_dir(n) = "PermissionError" THEN Raise("PermissionError")
               ELSE IF is_dir(n) # "yes" THEN Raise("NotADirectoryError")
               ELSE IF ~t.ok THEN t
               ELSE [ ok |-> TRUE, path |-> RelStr(rel), max_depth |-> max_depth,
                      tree |-> <<RelStr(rel) \o "/">> \o t.lines ]

\* round(size / 1024 / 1024, 2), in hundredths of a MiB
size_mb(bytes) == (bytes * 100 + MiB \div 2) \div MiB

RECURSIVE SumSizes(_, _)
SumSizes(S, f) ==
    IF S = {} THEN 0
    ELSE LET q == CHOOSE x \in S : TRUE IN f[q].size + SumSizes(S \ {q}, f)

\* the entries of a guarded scan that count: is_file() / is_dir() answered
ScannedFiles(rel, f) == { q \in rglob(rel, f) : is_file(f[q]) = "yes" }
ScannedDirs(rel, f) == { q \in rglob(rel, f) : is_file(f[q]) = "no" /\ is_dir(f[q]) = "yes" }

\* get_disk_usage(dir_path)
get_disk_usage(p, f) ==
    LET r == Target(p)
    IN IF ~r.ok THEN Raise(r.error)
       ELSE LET rel == RelOf(r.path)
                n == NodeAt(rel, f)
            IN IF is_dir(n) = "PermissionError" THEN Raise("PermissionError")
               ELSE IF is_dir(n) # "yes" THEN Raise("NotADirectoryError")
               ELSE [ ok |-> TRUE, path |-> RelStr(rel),
                      size_bytes |-> SumSizes(ScannedFiles(rel, f), f),
                      size_mb |-> size_mb(SumSizes(ScannedFiles(rel, f), f)),
                      file_count |-> Cardinality(ScannedFiles(rel, f)),
                      dir_count |-> Cardinality(ScannedDirs(rel, f)) ]

\* the orders in which a scan may meet the paths of S
ScanOrders(S) ==
    { o \in [1..Cardinality(S) -> S] : \A i, j \in 1..Cardinality(S) : i # j => o[i] # o[j] }

\* list.sort(key=..., reverse=True), keys[i] being the key of seq[i]: stable,
\* greatest key first
Without(seq, i) == SubSeq(seq, 1, i - 1) \o SubSeq(seq, i + 1, Len(seq))

RECURSIVE SortDesc(_, _)
SortDesc(seq, keys) ==
    IF seq = <<>> THEN <<>>
    ELSE LET top == CHOOSE i \in 1..Len(seq) :
                       /\ \A j \in 1..Len(seq) : keys[j] <= keys[i]
                       /\ \A j \in 1..(i - 1) : keys[j] < keys[i]
         IN <<seq[top]>> \o SortDesc(Without(seq, top), Without(keys, top))

\* seq[:limit] for limit >= 0
Truncate(seq, limit) == SubSeq(seq, 1, IF limit < Len(seq) THEN limit ELSE Len(seq))

\* find_large_files(dir_path, min_size_mb, limit), the scan meeting the
\* entries in the given order
find_large_files(p, min_size_mb, limit, order, f) ==
    LET r == Target(p)
    IN IF ~r.ok THEN Raise(r.error)
       ELSE LET rel == RelOf(r.path)
                n == NodeAt(rel, f)
                min_size_bytes == min_size_mb * MiB
                found == SelectSeq(order, LAMBDA q :
                             is_file(f[q]) = "yes" /\ f[q].size >= min_size_bytes)
                files == [ i \in 1..Len(found) |->
                             [ path |-> RelStr(found[i]), size_bytes |-> f[found[i]].size,
                               size_mb |-> size_mb(f[found[i]].size) ] ]
                keys == [ i \in 1..Len(files) |-> files[i].size_mb ]
            IN IF is_dir(n) = "PermissionError" THEN Raise("PermissionError")
               ELSE IF is_dir(n) # "yes" THEN Raise("NotADirectoryError")
               ELSE [ ok |-> TRUE, path |-> RelStr(rel), min_size_mb |-> min_size_mb,
                      limit |-> limit, files |-> Truncate(SortDesc(files, keys), limit) ]

\* item.suffix.lower(), or "(no extension)"
Extension(name) == IF name \in {"f.txt", "g.txt"} THEN ".txt" ELSE "(no extension)"

\* the keys of counts in the order of their insertion
RECURSIVE FirstSeen(_)
FirstSeen(exts) ==
    IF exts = <<>> THEN <<>>
    ELSE LET before == FirstSeen(SubSeq(exts, 1, Len(exts) - 1))
             e == exts[Len(exts)]
         IN IF \E i \in 1..Len(before) : before[i] = e THEN before ELSE Append(before, e)

\* count_files_by_extension(dir_path), the scan meeting the entries in the
\* given order
count_files_by_extension(p, order, f) ==
    LET r == Target(p)
    IN IF ~r.ok THEN Raise(r.error)
       ELSE LET rel == RelOf(r.path)
                n == NodeAt(rel, f)
                found == SelectSeq(order, LAMBDA q : is_file(f[q]) = "yes")
                exts == [ i \in 1..Len(found) |-> Extension(Name(found[i])) ]
                keys == FirstSeen(exts)
                items == [ i \in 1..Len(keys) |->
                             <<keys[i], Len(SelectSeq(exts, LAMBDA e : e = keys[i]))>> ]
                counts == [ i \in 1..Len(items) |-> items[i][2] ]
            IN IF is_dir(n) = "PermissionError" THEN Raise("PermissionError")
               ELSE IF is_dir(n) # "yes" THEN Raise("NotADirectoryError")
               ELSE [ ok |-> TRUE, path |-> RelStr(rel), counts |-> SortDesc(items, counts) ]

\* the paths the tools are called with: the root, entries of it, a missing
\* path, a path outside the root
FsTargets ==
    { [abs |-> FALSE, comps |-> <<".">>],
      [abs |-> FALSE, comps |-> <<"d">>],
      [abs |-> FALSE, comps |-> <<"f.txt">>],
      [abs |-> FALSE, comps |-> <<"d", "g.txt">>],
      [abs |-> FALSE, comps |-> <<"nope">>],
      [abs |-> TRUE, comps |-> <<"srv", "root", "d">>],
      [abs |-> FALSE, comps |-> <<"..">>] }

\* deepest tree asked for
MaxDepth == 2
\* greatest limit and minimum size (MiB) asked for
MaxLimit == 2
MaxMinSize == 1

\* the entries a scan of the target meets
ScanSet(p) ==
    IF Target(p).ok THEN rglob(RelOf(Target(p).path), fs) ELSE {}

InitFs ==
    /\ IdleRender
    /\ BASE_DIR = <<"srv", "root">>
    /\ IdlePath
    /\ IdleTurn
    /\ IdleArgs
    /\ IdleBoot
    /\ fs \in FsStates
    /\ f_call = NoCall
    /\ f_out = NotCalled

CallGetFileContent ==
    /\ f_call = NoCall
    /\ \E p \in FsTargets :
        /\ f_call' = [op |-> "get_file_content", path |-> p]
        /\ f_out' = get_file_content(p, fs)
    /\ UNCHANGED fs
    /\ UNCHANGED notFs

CallListDirectory ==
    /\ f_call = NoCall
    /\ \E p \in FsTargets :
        /\ f_call' = [op |-> "list_directory", path |-> p]
        /\ f_out' = list_directory(p, fs)
    /\ UNCHANGED fs
    /\ UNCHANGED notFs

CallGetFileInfo ==
    /\ f_call = NoCall
    /\ \E p \in FsTargets :
        /\ f_call' = [op |-> "get_file_info", path |-> p]
        /\ f_out' = get_file_info(p, fs)
    /\ UNCHANGED fs
    /\ UNCHANGED notFs

CallSearchFiles ==
    /\ f_call = NoCall
    /\ \E p \in FsTargets, pattern \in SearchPatterns :
        /\ f_call' = [op |-> "search_files", path |-> p, pattern |-> pattern]
        /\ f_out' = search_files(pattern, p, fs)
    /\ UNCHANGED fs
    /\ UNCHANGED notFs

CallGetDirectoryTree ==
    /\ f_call = NoCall
    /\ \E p \in FsTargets, max_depth \in 0..MaxDepth :
        /\ f_call' = [op |-> "get_directory_tree", path |-> p, max_depth |-> max_depth]
        /\ f_out' = get_directory_tree(p, max_depth, fs)
    /\ UNCHANGED fs
    /\ UNCHANGED notFs

CallGetDiskUsage ==
    /\ f_call = NoCall
    /\ \E p \in FsTargets :
        /\ f_call' = [op |-> "get_disk_usage", path |-> p]
        /\ f_out' = get_disk_usage(p, fs)
    /\ UNCHANGED fs
    /\ UNCHANGED notFs

CallFindLargeFiles ==
    /\ f_call = NoCall
    /\ \E p \in FsTargets, min_size_mb \in 0..MaxMinSize, limit \in 0..MaxLimit :
        \E order \in ScanOrders(ScanSet(p)) :
            /\ f_call' = [ op |-> "find_large_files", path |-> p,
                           min_size_mb |-> min_size_mb, limit |-> limit ]
            /\ f_out' = find_large_files(p, min_size_mb, limit, order, fs)
    /\ UNCHANGED fs
    /\ UNCHANGED notFs

CallCountFilesByExtension ==
    /\ f_call = NoCall
    /\ \E p \in FsTargets :
        \E order \in ScanOrders(ScanSet(p)) :
            /\ f_call' = [op |-> "count_files_by_extension", path |-> p]
            /\ f_out' = count_files_by_extension(p, order, fs)
    /\ UNCHANGED fs
    /\ UNCHANGED notFs

NextFs ==
    \/ CallGetFileContent
    \/ CallListDirectory
    \/ CallGetFileInfo
    \/ CallSearchFiles
    \/ CallGetDirectoryTree
    \/ CallGetDiskUsage
    \/ CallFindLargeFiles
    \/ CallCountFilesByExtension

SpecFs == InitFs /\ [][NextFs]_vars

(***************************************************************************)
(* function_make_response                                                  *)
(***************************************************************************)
\* more Python values: bool, float (in hundredths), tuple, and a dict or the
\* keyword arguments as the sequence of their <<key, value>> items in order
PyBool(b) == [t |-> "bool", v |-> b]
PyFloat(h) == [t |-> "float", v |-> h]
PyTuple(l) == [t |-> "tuple", v |-> l]
PyItems(l) == [t |-> "items", v |-> l]

\* key in d, d[key], d.get(key, default) for a sequence of items
HasKey(items, key) == \E i \in DOMAIN items : items[i][1] = key
ValueOf(items, key) == items[CHOOSE i \in DOMAIN items : items[i][1] = key][2]
items_get(items, key, default) == IF HasKey(items, key) THEN ValueOf(items, key) ELSE default

\* str(x) of a float with at most two decimals: 1.0, 1.5, 1.25
str_float(h) ==
    ToString(h \div 100) \o "." \o
        (IF h % 10 = 0 THEN ToString((h % 100) \div 10)
         ELSE ToString((h % 100) \div 10) \o ToString(h % 10))

\* str(x) of a value that is neither a dict nor a list
str(x) ==
    CASE x.t = "str" -> x.v
      [] x.t = "int" -> ToString(x.v)
      [] x.t = "float" -> str_float(x.v)
      [] x.t = "bool" -> (IF x.v THEN "True" ELSE "False")
      [] OTHER -> "None"

\* sep.join(strings)
RECURSIVE join(_, _)
join(sep, strings) ==
    IF strings = <<>> THEN ""
    ELSE IF Len(strings) = 1 THEN strings[1]
    ELSE strings[1] \o sep \o join(sep, Tail(strings))

\* _format_value(value)
RECURSIVE _format_value(_)
_format_value(value) ==
    IF value.t = "items"
    THEN (IF value.v = <<>> THEN "(none)"
          ELSE join(", ", [ i \in DOMAIN value.v |->
                              value.v[i][1] \o "=" \o _format_value(value.v[i][2]) ]))
    ELSE IF value.t \in {"list", "tuple"}
    THEN (IF value.v = <<>> THEN "(none)"
          ELSE join(", ", [ i \in DOMAIN value.v |-> _format_value(value.v[i]) ]))
    ELSE str(value)

\* the source's fence is three backquotes; a TLA+ string holds none
Fence == "'''"

\* the keys the generic rendering passes over
SkippedKeys == {"path", "summary", "entries", "content", "tree", "files", "counts"}

\* "key in data and isinstance(data[key], type)"
IsA(data, key, type) == HasKey(data, key) /\ ValueOf(data, key).t = type

\* the lines of the generic rendering
GenericLines(data) ==
    LET kept == SelectSeq(data, LAMBDA kv : kv[1] \notin SkippedKeys)
    IN [ i \in DOMAIN kept |-> "- " \o kept[i][1] \o ": " \o _format_value(kept[i][2]) ]

\* function_make_response testing content before entries
MakeResponseContentFirst(summary, data) ==
    LET structured == <<<<"summary", PyStr(summary)>>>>
                      \o (IF data # <<>> THEN <<<<"data", PyItems(data)>>>> ELSE <<>>)
        text_lines ==
            IF IsA(data, "content", "str")
            THEN <<summary, "\nFile Content:", Fence, ValueOf(data, "content").v, Fence>>
            ELSE IF IsA(data, "entries", "list")
            THEN LET entries == ValueOf(data, "entries").v
                 IN IF entries # <<>>
                    THEN <<summary, "\nHere are the items found:">>
                         \o [ i \in DOMAIN entries |-> "- " \o str(entries[i]) ]
                    ELSE <<summary, "\nThe directory is empty.">>
            ELSE <<summary>> \o GenericLines(data)
    IN [ rendered |-> TRUE, lines |-> text_lines, text |-> join("\n", text_lines),
         structured_content |-> structured ]

\* function_make_response(summary, **data)
function_make_response(summary, data) ==
    LET structured == <<<<"summary", PyStr(summary)>>>>
                      \o (IF data # <<>> THEN <<<<"data", PyItems(data)>>>> ELSE <<>>)
        text_lines ==
            IF IsA(data, "entries", "list")
            THEN LET entries == ValueOf(data, "entries").v
                 IN IF entries # <<>>
                    THEN <<summary, "\nHere are the items found:">>
                         \o [ i \in DOMAIN entries |-> "- " \o str(entries[i]) ]
                    ELSE <<summary, "\nThe directory is empty.">>
            ELSE IF IsA(data, "content", "str")
            THEN <<summary, "\nFile Content:", Fence, ValueOf(data, "content").v, Fence>>
            ELSE IF IsA(data, "tree", "list")
            THEN <<summary, "\nDirectory Structure:", Fence>>
                 \o [ i \in DOMAIN ValueOf(data, "tree").v |-> ValueOf(data, "tree").v[i].v ]
                 \o <<Fence>>
            ELSE IF IsA(data, "files", "list")
            THEN LET files == ValueOf(data, "files").v
                 IN <<summary, "\nLarge Files Found:">>
                    \o [ i \in DOMAIN files |->
                           "- " \o str(items_get(files[i].v, "path", PyStr("unknown")))
                           \o " (" \o str(items_get(files[i].v, "size_mb", PyInt(0))) \o " MB)" ]
            ELSE IF IsA(data, "counts", "list")
            THEN LET counts == ValueOf(data, "counts").v
                 IN <<summary, "\nFile Counts by Extension:">>
                    \o [ i \in DOMAIN counts |->
                           "- " \o str(counts[i].v[1]) \o ": " \o str(counts[i].v[2]) ]
            ELSE <<summary>> \o GenericLines(data)
    IN [ rendered |-> TRUE, lines |-> text_lines, text |-> join("\n", text_lines),
         structured_content |-> structured ]

\* the values a keyword may be called with ({} : the keyword is not passed)
KwPath == {<<>>, <<<<"path", PyStr("d")>>>>}
KwSize == {<<>>, <<<<"size_bytes", PyInt(12)>>>>}
KwMatches ==
    { <<>>, <<<<"matches", PyList(<<>>)>>>>,
      <<<<"matches", PyList(<<PyStr("d/"), PyStr("d/g.txt")>>)>>>> }
KwEntries ==
    { <<>>, <<<<"entries", PyList(<<>>)>>>>,
      <<<<"entries", PyList(<<PyStr("d/"), PyStr("f.txt")>>)>>>>,
      <<<<"entries", PyStr("d/")>>>> }
KwContent ==
    { <<>>, <<<<"content", PyNone>>>>, <<<<"content", PyStr("Hello world\nThis is a test.")>>>> }
KwTree == {<<>>, <<<<"tree", PyList(<<PyStr("./"), PyStr("+-- f.txt")>>)>>>>}
KwFiles ==
    { <<>>,
      <<<<"files", PyList(<< PyItems(<< <<"path", PyStr("f.txt")>>, <<"size_bytes", PyInt(1572864)>>,
                                        <<"size_mb", PyFloat(150)>> >>),
                             PyItems(<< <<"size_bytes", PyInt(12)>> >>) >>)>>>> }
KwCounts ==
    { <<>>, <<<<"counts", PyList(<<PyTuple(<<PyStr(".txt"), PyInt(2)>>),
                                   PyTuple(<<PyStr("(no extension)"), PyInt(1)>>)>>)>>>> }

RenderInputs ==
    { [summary |-> "Done.", data |-> a \o b \o c \o d \o e \o f \o g \o h] :
        a \in KwPath, b \in KwSize, c \in KwMatches, d \in KwEntries,
        e \in KwContent, f \in KwTree, g \in KwFiles, h \in KwCounts }

InitRender ==
    /\ BASE_DIR = <<"srv", "root">>
    /\ IdlePath
    /\ IdleTurn
    /\ IdleArgs
    /\ IdleBoot
    /\ IdleFs
    /\ r_in \in RenderInputs
    /\ r_out = NotRendered

\* a tool returns function_make_response(summary, **data)
MakeResponse ==
    /\ r_out = NotRendered
    /\ r_out' = function_make_response(r_in.summary, r_in.data)
    /\ UNCHANGED r_in
    /\ UNCHANGED notRender

NextRender == MakeResponse

SpecRender == InitRender /\ [][NextRender]_vars

(***************************************************************************)
(* _tc_function applied to one tool-call request                           *)
(***************************************************************************)
\* what the model may put in "arguments"
RawArguments ==
    { Absent, PyNone, PyInt(3), PyList(<<1>>), PyDict({}), PyDict(DirArgs) }
    \cup { PyStr(x) : x \in { JsonEmptyObj, JsonObj, JsonFileObj, JsonArray, JsonNumber,
                              JsonNull, JsonText, NotJson, "" } }

ArgFunctions ==
    { Absent, PyNone }
    \cup [ shape : {"obj", "dict"},
           name : {PyNone, PyStr("list_directory")},
           arguments : RawArguments ]

ArgInputs == { [shape |-> sh, id |-> PyStr("c1"), function |-> f] :
                   sh \in {"obj", "dict"}, f \in ArgFunctions }

InitArgs ==
    /\ IdleRender
    /\ BASE_DIR = <<"srv", "root">>
    /\ IdlePath
    /\ IdleTurn
    /\ IdleBoot
    /\ IdleFs
    /\ a_tc \in ArgInputs
    /\ a_out = NotNormalized

\* lines 183-186: func_name, args = _tc_function(tc); args go to mcp_tool.call
NormalizeCall ==
    /\ a_out = NotNormalized
    /\ a_out' = [ called |-> TRUE,
                  name |-> _tc_function(a_tc)[1],
                  args |-> _tc_function(a_tc)[2] ]
    /\ UNCHANGED a_tc
    /\ UNCHANGED notArgs

NextArgs == NormalizeCall

SpecArgs == InitArgs /\ [][NextArgs]_vars

(***************************************************************************)
(* The sandbox applied to one input                                        *)
(***************************************************************************)
InitPath ==
    /\ IdleRender
    /\ BASE_DIR \in Bases
    /\ links \in LinkConfigs(BASE_DIR)
    /\ p_raw \in PathInputs
    /\ p_res = NotCalled
    /\ p_disp = NotDisplayed
    /\ IdleTurn
    /\ IdleArgs
    /\ IdleBoot
    /\ IdleFs

CallResolveSafe ==
    /\ p_res = NotCalled
    /\ p_res' = _resolve_safe(p_raw, BASE_DIR, links)
    /\ UNCHANGED <<BASE_DIR, links, p_raw, p_disp>>
    /\ UNCHANGED notPath

\* rel = _relative_display(path), as every tool does with the path
\* _resolve_safe returned
CallRelativeDisplay ==
    /\ p_res.ok
    /\ p_disp = NotDisplayed
    /\ p_disp' = _relative_display(p_res.path, BASE_DIR)
    /\ UNCHANGED <<BASE_DIR, links, p_raw, p_res>>
    /\ UNCHANGED notPath

NextPath ==
    \/ CallResolveSafe
    \/ CallRelativeDisplay

SpecPath == InitPath /\ [][NextPath]_vars

(***************************************************************************)
(* Claims                                                                  *)
(***************************************************************************)

\* C1: whatever the input path, _resolve_safe either raises the outside-root
\* rejection or returns a canonical path equal to BASE_DIR or a descendant of
\* it, on the direct branch and on the _coerce_into_base branch alike.
C1_Containment ==
    p_res # NotCalled =>
        \/ ~p_res.ok /\ p_res.error = "ValueError"
        \/ /\ p_res.ok
           /\ p_res.via \in {"direct", "coerced"}
           /\ IsPrefix(BASE_DIR, p_res.path)
           /\ resolve(p_res.path, links) = p_res.path

\* a path outside the root that names the root was coerced into the root
C1_Witness ==
    /\ p_res.ok
    /\ p_res.via = "coerced"
    /\ Len(p_res.path) > Len(BASE_DIR)
    /\ p_raw.abs

(***************************************************************************)
(* Reading the state of a turn, for the claims about run_one_turn          *)
(***************************************************************************)
\* the tool-call requests of the first response, as the model sent them
Requests ==
    IF first = NoMessage \/ first.tool_calls.t # "list" THEN <<>> ELSE first.tool_calls.v

\* the request carries a function name
HasName(tc) ==
    /\ tc.function # PyNone
    /\ tc.function.name.t = "str"
    /\ tc.function.name.v # ""

RequestId(tc) == IF tc.id.t = "str" THEN tc.id.v ELSE ""
RequestName(tc) == tc.function.name.v

\* the indices of the named requests among the first n, in request order
RECURSIVE NamedUpTo(_)
NamedUpTo(n) ==
    IF n = 0 THEN <<>>
    ELSE IF n <= Len(Requests) /\ HasName(Requests[n])
         THEN Append(NamedUpTo(n - 1), n)
         ELSE NamedUpTo(n - 1)

Named == NamedUpTo(Len(Requests))

EventsOf(kind) == SelectSeq(trace, LAMBDA ev : ev.e = kind)

\* msgs is [system, user] followed by the pairs of the requests listed in named
PairsOf(msgs, named) ==
    /\ Len(msgs) = 2 + 2 * Len(named)
    /\ msgs[1].role = "system"
    /\ msgs[2].role = "user"
    /\ \A k \in 1..Len(named) :
        LET a == msgs[2 * k + 1]
            t == msgs[2 * k + 2]
            tc == Requests[named[k]]
        IN /\ a.role = "assistant"
           /\ Len(a.tool_calls) = 1
           /\ a.tool_calls[1].id = RequestId(tc)
           /\ a.tool_calls[1].function.name = RequestName(tc)
           /\ t.role = "tool"
           /\ t.tool_call_id = a.tool_calls[1].id
           /\ t.name = RequestName(tc)

TurnRunning ==
    /\ pc \in {"model_call_1", "executing", "tool_call", "model_call_2", "done", "raised"}
    /\ ret # Raised("TransportFailure")

(***************************************************************************)
(* Claims about run_one_turn                                               *)
(***************************************************************************)

\* C2: when a tool invocation raises, the turn is not aborted: the failure is
\* appended as the text of a tool-role message for that call, the remaining
\* calls and the second completion call still happen, and run_one_turn
\* returns normally.
C2_ToolFailureDoesNotAbortTurn ==
    \A k \in DOMAIN trace :
        trace[k].e = "raise" =>
            /\ ret.kind # "raise"
            /\ pc # "raised"
            /\ \E m \in DOMAIN messages :
                /\ messages[m].role = "tool"
                /\ messages[m].tool_call_id = RequestId(Requests[trace[k].i])

\* C3: when the first response carries no tool-call requests (absent, None or
\* an empty list) the turn returns that response's text unchanged, the empty
\* string when the text is absent; no tool is invoked and no second
\* completion call is made.
C3_NoToolCallsReturnsFirstText ==
    (first # NoMessage /\ Requests = <<>>) =>
        /\ pc = "done"
        /\ ret = Returned(IF first.content.t = "str" THEN first.content.v ELSE "")
        /\ EventsOf("invoke") = <<>>
        /\ Len(EventsOf("completion")) = 1
        /\ messages = <<SystemMsg, UserMsg>>

C3_Witness ==
    /\ pc = "done"
    /\ first # NoMessage
    /\ first.shape = "dict"
    /\ first.tool_calls = PyList(<<>>)
    /\ ret = Returned("hello")

\* C4: the tools are invoked one at a time in the order of the request list,
\* each invocation starting only after the result of the one before is in the
\* transcript; and the transcript sent with the second completion call holds
\* the assistant/tool pairs in request order.
C4_ToolCallOrdering ==
    /\ \A j \in 1..Len(EventsOf("invoke")) :
        LET ev == EventsOf("invoke")[j]
        IN /\ j <= Len(Named)
           /\ ev.i = Named[j]
           /\ ev.name = RequestName(Requests[Named[j]])
           /\ ev.at = 2 + 2 * (j - 1)
           /\ PairsOf(SubSeq(messages, 1, ev.at), SubSeq(Named, 1, j - 1))
    /\ \A k \in DOMAIN trace :
        (k > 1 /\ trace[k].e = "completion") =>
            /\ PairsOf(trace[k].messages, Named)
            /\ Len(EventsOf("result")) = Len(Named)

\* two named requests with different names and ids were executed, and the
\* second completion call was made
C4_Witness ==
    /\ pc = "model_call_2"
    /\ Len(Named) = 2
    /\ RequestName(Requests[Named[1]]) # RequestName(Requests[Named[2]])
    /\ RequestId(Requests[Named[1]]) # RequestId(Requests[Named[2]])
    /\ Len(messages) = 6

\* C5: at every point of a turn the transcript is [system, user] followed by
\* adjacent pairs (assistant message with exactly one tool call, tool message
\* with that call's id); every request with a function name that the loop has
\* dealt with has exactly one pair and one invocation, a request without a
\* function name has neither.
C5_TranscriptPairs ==
    TurnRunning =>
        /\ PairsOf(messages, NamedUpTo(IF idx = 0 THEN 0 ELSE idx - 1))
        /\ \A k \in DOMAIN trace :
            trace[k].e = "invoke" => HasName(Requests[trace[k].i])
        /\ \A i \in 1..Len(Requests) :
            Len(SelectSeq(trace, LAMBDA ev : ev.e = "invoke" /\ ev.i = i))
                = IF HasName(Requests[i]) /\ (i < idx \/ (i = idx /\ pc \in {"tool_call", "raised"}))
                  THEN 1 ELSE 0
        /\ pc \in {"model_call_2", "done"} => PairsOf(messages, Named)

\* a response with one nameless request and one list_directory request ended
\* with exactly one pair
C5_Witness ==
    /\ pc = "done"
    /\ Len(Requests) = 2
    /\ ~HasName(Requests[1])
    /\ HasName(Requests[2])
    /\ RequestName(Requests[2]) = "list_directory"
    /\ Len(messages) = 4
    /\ messages[4].tool_call_id = "c1"

\* what may come after what in a turn
Follows(prev, cur) ==
    \/ prev.e = "completion" /\ prev.tools # Absent /\ cur.e = "invoke"
    \/ prev.e = "completion" /\ prev.tools # Absent /\ cur.e = "completion" /\ cur.tools = Absent
    \/ prev.e = "invoke" /\ cur.e \in {"result", "raise"} /\ cur.i = prev.i
    \/ prev.e = "result" /\ cur.e = "invoke" /\ cur.i > prev.i
    \/ prev.e = "result" /\ cur.e = "completion" /\ cur.tools = Absent

\* C6: a turn goes START -> MODEL_CALL_1 -> (DONE | EXECUTING -> MODEL_CALL_2
\* -> DONE): at most two completion calls; after a first response with tool
\* calls the second call is made once, after every tool invocation of the
\* turn has finished, with the extended transcript and without the tool
\* catalog; nothing is invoked after it, whatever its response asks for, and
\* the turn returns that response's text, or the empty string.
C6_TurnStateMachine ==
    TurnRunning =>
        /\ Len(trace) >= 1
        /\ trace[1].e = "completion"
        /\ trace[1].tools = to_openai_tools(mcp_tools)
        /\ trace[1].messages = <<SystemMsg, UserMsg>>
        /\ \A k \in 2..Len(trace) : Follows(trace[k - 1], trace[k])
        /\ Len(EventsOf("completion")) <= 2
        /\ (pc \in {"model_call_2", "done"} /\ Requests # <<>>) =>
            /\ Len(EventsOf("completion")) = 2
            /\ trace[Len(trace)] = CompletionEv(messages, Absent)
            /\ Len(EventsOf("invoke")) = Len(Named)
            /\ Len(EventsOf("result")) = Len(Named)
            /\ Len(messages) = 2 + 2 * Len(Named)
        /\ (pc = "done" /\ Requests # <<>>) =>
            /\ final # NoMessage
            /\ ret = Returned(IF final.content.t = "str" THEN final.content.v ELSE "")
        /\ (pc = "done" /\ Requests = <<>>) => Len(trace) = 1
        /\ pc = "model_call_1" => Len(trace) = 1
        /\ pc = "executing" => trace[Len(trace)].e \in {"result", "completion"}
        /\ pc = "tool_call" => trace[Len(trace)].e = "invoke"

\* the turn ended after two tool invocations with a final response that asks
\* for a tool again: nothing more was invoked
C6_Witness ==
    /\ pc = "done"
    /\ Len(EventsOf("invoke")) = 2
    /\ final # NoMessage
    /\ final.tool_calls # PyNone
    /\ ret = Returned("done")
    /\ trace[Len(trace)].e = "completion"


(***************************************************************************)
(* Claims about _tc_function                                               *)
(***************************************************************************)
RawArgsOf(tc) ==
    IF tc.function \in {Absent, PyNone} THEN Absent ELSE tc.function.arguments

\* the text is the JSON encoding of an object
IsJsonObjectText(x) == x \in {JsonEmptyObj, JsonObj, JsonFileObj}

\* C10: whatever the raw arguments of a request (JSON text, mapping, anything
\* else) and whatever the shape of its envelope, the arguments handed to the
\* tool invocation are a mapping: the parsed object for JSON text, the mapping
\* itself for a mapping, the empty mapping for text that does not parse and
\* for any other value.
C10_ArgumentsAreAMapping ==
    (a_out.called /\ Truthy(a_out.name)) =>
        /\ a_out.args.t = "dict"
        /\ LET raw == RawArgsOf(a_tc)
           IN /\ (raw.t = "str" /\ IsJsonObjectText(raw.v)) => json_dumps(a_out.args) = raw.v
              /\ raw.t = "dict" => a_out.args = raw
              /\ (raw.t \notin {"str", "dict", "absent"}) => a_out.args = PyDict({})
              /\ (raw.t = "str" /\ ~json_loads(raw.v).ok) => a_out.args = PyDict({})

(***************************************************************************)
(* Claims about the import of mcp_file                                     *)
(***************************************************************************)
\* the path the root is taken from: the environment's, or the default when the
\* variable is unset or empty
EffectiveRoot ==
    IF env # Absent /\ env.v.comps # <<>> THEN env.v ELSE DEFAULT_ADMIN_ROOT

EffectiveKind == KindAt(resolve_configured(EffectiveRoot, links), host)

\* C8 as stated: the import fails when the root is absent from the
\* environment, when the configured path does not exist, and when it is not a
\* directory; when it succeeds BASE_DIR is an absolute existing directory and
\* is not reassigned.
C8_AbsentRootIsFatal ==
    boot.state \in {"serving", "failed"} =>
        /\ (env = Absent \/ EffectiveKind # "dir") => boot.state = "failed"
        /\ boot.state = "serving" => KindAt(BASE_DIR, host) = "dir"

\* C8 as amended: a root absent from the environment (unset or empty) is
\* replaced by DEFAULT_ADMIN_ROOT; the import fails exactly when the path in
\* effect does not exist (FileNotFoundError) or is not a directory
\* (NotADirectoryError), and BASE_DIR is then never set; when it succeeds
\* BASE_DIR is the canonical path of an existing directory, and serving tools
\* never changes it.
C8_ImportFailsOnBadRoot ==
    /\ boot.state = "importing" => BASE_DIR = NoBaseDir
    /\ boot.state = "failed" =>
        /\ BASE_DIR = NoBaseDir
        /\ p_res = NotCalled
        /\ EffectiveKind # "dir"
        /\ boot.error = IF EffectiveKind = "none" THEN "FileNotFoundError"
                        ELSE "NotADirectoryError"
    /\ boot.state = "serving" =>
        /\ EffectiveKind = "dir"
        /\ BASE_DIR = boot.path
        /\ BASE_DIR = resolve_configured(EffectiveRoot, links)
        /\ resolve(BASE_DIR, links) = BASE_DIR
        /\ KindAt(BASE_DIR, host) = "dir"

\* the variable was unset, the default directory exists, and a tool was served
C8_Witness ==
    /\ boot.state = "serving"
    /\ boot # Imported
    /\ env = Absent
    /\ BASE_DIR = <<"Users", "folder_de_administrat">>
    /\ p_res.ok

(***************************************************************************)
(* Claims about the filesystem tools                                       *)
(***************************************************************************)
\* the tools that expect a directory
DirOps ==
    { "list_directory", "search_files", "get_directory_tree", "get_disk_usage",
      "find_large_files", "count_files_by_extension" }

\* a tool was called with a path that passed _resolve_safe
CalledInside == f_call # NoCall /\ Target(f_call.path).ok

\* what is at the path the call resolved to
CalledNode == NodeAt(RelOf(Target(f_call.path).path), fs)

TargetMissing == CalledInside /\ exists(CalledNode) = "no"

TargetWrongKind ==
    /\ CalledInside
    /\ exists(CalledNode) = "yes"
    /\ \/ f_call.op \in DirOps /\ CalledNode.kind = "file"
       \/ f_call.op = "get_file_content" /\ CalledNode.kind = "dir"

NotFoundErrors == {"FileNotFoundError"}
WrongKindErrors == {"NotADirectoryError", "IsADirectoryError"}

ScanStarted ==
    /\ CalledInside
    /\ f_call.op \in DirOps
    /\ is_dir(CalledNode) = "yes"
    /\ iterdir_error(CalledNode) = "ok"

\* C9: a tool that visits the entries below a directory (list, search, tree,
\* disk usage, large files, extension counts) passes over an entry it may not
\* examine (permission denied, or gone since it was listed) and returns a
\* result for the others: it does not fail as a whole.
C9_ScansSkipInaccessible ==
    ScanStarted => f_out.ok

(***************************************************************************)
(* Claims about MCPToolWrapper                                             *)
(***************************************************************************)
\* C11: once list_tools has obtained the catalog, an empty one included, the
\* transport is not asked again and the cached catalog is neither replaced
\* nor cleared: the catalog is fetched at most once, the cache is set exactly
\* when it was, and the first completion call of every turn carries the tools
\* made from the cached catalog.
C11_CatalogFetchedOnce ==
    /\ fetches <= 1
    /\ fetches = 1 <=> mcp_tools # PyNone
    /\ mcp_tools # PyNone => mcp_tools \in {PyList(c) : c \in Catalogs}
    /\ (TurnRunning /\ trace # <<>>) => trace[1].tools = to_openai_tools(mcp_tools)

\* C11, over steps: a cached catalog stays as it is
C11_CacheKept ==
    [][mcp_tools # PyNone => (mcp_tools' = mcp_tools /\ fetches' = fetches)]_vars

\* a turn made its first completion call with the empty catalog that is
\* cached, fetched once
C11_Witness ==
    /\ mcp_tools = PyList(<<>>)
    /\ fetches = 1
    /\ pc = "model_call_1"
    /\ trace[1].tools = <<>>

(***************************************************************************)
(* Claims about _relative_display and _resolve_safe                        *)
(***************************************************************************)
\* the input is a relative path without "." and ".." components
PlainRelative == ~p_raw.abs /\ \A i \in DOMAIN p_raw.comps : p_raw.comps[i] \notin {".", ".."}

\* no component of the input, taken below the root, is a symbolic link
NoLinkBelowRoot ==
    \A k \in 1..Len(p_raw.comps) : ~IsLink(BASE_DIR \o SubSeq(p_raw.comps, 1, k), links)

\* the input names the root: the empty relative path, or the root's own path
NamesRoot ==
    \/ ~p_raw.abs /\ PathParts(p_raw.comps) = <<>>
    \/ p_raw.abs /\ p_raw.comps = BASE_DIR

Displayed == p_disp # NotDisplayed

\* C12 as stated: the text shown for the path _resolve_safe returned is "."
\* for the root, is r itself for every relative path r without "." and ".."
\* that resolves to a place inside the root, and is never an absolute path.
C12_DisplayRoundTrip ==
    Displayed =>
        /\ ~p_disp.abs
        /\ NamesRoot => p_disp = PathText(FALSE, <<".">>)
        /\ (PlainRelative /\ p_raw.comps # <<>> /\ p_res.via = "direct") =>
              p_disp = PathText(FALSE, p_raw.comps)

\* C12 as amended: the text shown is the canonical path relative to the
\* root: "." for the root, never absolute, and r itself for every relative
\* path r without "." and ".." of which no component is a symbolic link.
C12_DisplayOfCanonicalPath ==
    Displayed =>
        /\ ~p_disp.abs
        /\ NamesRoot => p_disp = PathText(FALSE, <<".">>)
        /\ BASE_DIR \o PathParts(p_disp.comps) = p_res.path
        /\ (PlainRelative /\ p_raw.comps # <<>> /\ NoLinkBelowRoot) =>
              /\ p_res.via = "direct"
              /\ p_disp = PathText(FALSE, p_raw.comps)

\* a relative path of two components, none of them a link although the host
\* has links, was resolved and shown as it was given
C12_Witness ==
    /\ Displayed
    /\ PlainRelative
    /\ Len(p_raw.comps) = 2
    /\ links # <<>>
    /\ p_disp = PathText(FALSE, p_raw.comps)

(***************************************************************************)
(* Claims about function_make_response                                     *)
(***************************************************************************)
\* the data field of the highest priority that is present with its type, or
\* "generic" when none is
FirstOf(kinds) ==
    IF \E i \in DOMAIN kinds : IsA(r_in.data, kinds[i][1], kinds[i][2])
    THEN kinds[CHOOSE i \in DOMAIN kinds :
                   /\ IsA(r_in.data, kinds[i][1], kinds[i][2])
                   /\ \A j \in 1..(i - 1) : ~IsA(r_in.data, kinds[j][1], kinds[j][2])][1]
    ELSE "generic"

Priority ==
    << <<"entries", "list">>, <<"content", "str">>, <<"tree", "list">>,
       <<"files", "list">>, <<"counts", "list">> >>

\* the header line of each rendering
Header ==
    [ entries |-> "\nHere are the items found:", content |-> "\nFile Content:",
      tree |-> "\nDirectory Structure:", files |-> "\nLarge Files Found:",
      counts |-> "\nFile Counts by Extension:" ]

Headers == { Header[k] : k \in DOMAIN Header } \cup {"\nThe directory is empty."}

\* C13: the text is rendered after the first of entries (list), content
\* (string), tree (list), files (list), counts (list) that the data carries,
\* and after that one only, else one line per remaining field; a listing is
\* the summary and one bullet per entry, or the empty-directory sentence; a
\* text read is the summary and the fenced file text as it is; the structured
\* content always holds the summary and every data field.
C13_RenderPriority ==
    r_out.rendered =>
        LET data == r_in.data
            lines == r_out.lines
            kind == FirstOf(Priority)
        IN /\ lines[1] = r_in.summary
           /\ r_out.text = join("\n", lines)
           /\ Cardinality({ i \in DOMAIN lines : lines[i] \in Headers }) = IF kind = "generic" THEN 0 ELSE 1
           /\ kind = "entries" =>
                LET entries == ValueOf(data, "entries").v
                IN IF entries = <<>>
                   THEN lines = <<r_in.summary, "\nThe directory is empty.">>
                   ELSE /\ Len(lines) = 2 + Len(entries)
                        /\ lines[2] = Header.entries
                        /\ \A i \in DOMAIN entries : lines[2 + i] = "- " \o entries[i].v
           /\ kind = "content" =>
                lines = <<r_in.summary, Header.content, Fence, ValueOf(data, "content").v, Fence>>
           /\ kind = "tree" =>
                /\ Len(lines) = 4 + Len(ValueOf(data, "tree").v)
                /\ lines[2] = Header.tree
                /\ lines[3] = Fence /\ lines[Len(lines)] = Fence
                /\ \A i \in DOMAIN ValueOf(data, "tree").v : lines[3 + i] = ValueOf(data, "tree").v[i].v
           /\ kind = "files" =>
                /\ Len(lines) = 2 + Len(ValueOf(data, "files").v)
                /\ lines[2] = Header.files
           /\ kind = "counts" =>
                /\ Len(lines) = 2 + Len(ValueOf(data, "counts").v)
                /\ lines[2] = Header.counts
           /\ kind = "generic" =>
                Len(lines) = 1 + Cardinality({ i \in DOMAIN data : data[i][1] \notin SkippedKeys })
           /\ ValueOf(r_out.structured_content, "summary") = PyStr(r_in.summary)
           /\ \A i \in DOMAIN data :
                /\ HasKey(r_out.structured_content, "data")
                /\ items_get(ValueOf(r_out.structured_content, "data").v, data[i][1], Absent) = data[i][2]

\* data carrying entries, a text content, a tree, files and counts at once
\* was rendered as the listing alone
C13_Witness ==
    /\ r_out.rendered
    /\ IsA(r_in.data, "entries", "list") /\ ValueOf(r_in.data, "entries").v # <<>>
    /\ IsA(r_in.data, "content", "str")
    /\ IsA(r_in.data, "tree", "list")
    /\ IsA(r_in.data, "files", "list")
    /\ IsA(r_in.data, "counts", "list")
    /\ Len(r_out.lines) = 4

(***************************************************************************)
(* Claims about the coercion fallback of _resolve_safe                     *)
(***************************************************************************)
\* the canonical path of the input, before containment is checked
CanonicalInput ==
    IF p_raw.abs THEN resolve(PathParts(p_raw.comps), links)
    ELSE resolve(BASE_DIR \o PathParts(p_raw.comps), links)

\* the places of the canonical path whose component is the root's name,
\* whatever the case
NameMatches ==
    { k \in 1..Len(CanonicalInput) : lower(CanonicalInput[k]) = lower(BASE_DIR[Len(BASE_DIR)]) }

LastMatch == CHOOSE k \in NameMatches : \A j \in NameMatches : j <= k

\* BASE_DIR joined with the components after the last match
Rejoined == BASE_DIR \o SubSeq(CanonicalInput, LastMatch + 1, Len(CanonicalInput))

Inside(path) == IsPrefix(BASE_DIR, path)

\* C14 as stated: a canonical path inside the root is returned as it is, a
\* component named like the root or not; a canonical path outside the root
\* with a component equal to the root's name (case ignored) gives BASE_DIR
\* joined with exactly the components after the last such component; with no
\* such component, or a rejoined path outside the root, the call raises the
\* rejection that names the path and the root.
C14_CoercionExact ==
    p_res # NotCalled =>
        /\ Inside(CanonicalInput) => p_res = Resolved(CanonicalInput, "direct")
        /\ (~Inside(CanonicalInput) /\ NameMatches = {}) =>
              p_res = Rejected(CanonicalInput, BASE_DIR)
        /\ (~Inside(CanonicalInput) /\ NameMatches # {}) =>
              \/ p_res = Resolved(Rejoined, "coerced")
              \/ /\ ~Inside(resolve(Rejoined, links))
                 /\ p_res = Rejected(CanonicalInput, BASE_DIR)

\* C14 as amended: as stated, the result of the fallback being the canonical
\* form of the rejoined path (a symbolic link among the rejoined components
\* is replaced by its target), which is returned when it is inside the root.
C14_CoercionCanonical ==
    p_res # NotCalled =>
        /\ Inside(CanonicalInput) => p_res = Resolved(CanonicalInput, "direct")
        /\ (~Inside(CanonicalInput) /\ NameMatches = {}) =>
              p_res = Rejected(CanonicalInput, BASE_DIR)
        /\ (~Inside(CanonicalInput) /\ NameMatches # {}) =>
              IF Inside(resolve(Rejoined, links))
              THEN p_res = Resolved(resolve(Rejoined, links), "coerced")
              ELSE p_res = Rejected(CanonicalInput, BASE_DIR)
        /\ (p_res.ok /\ p_res.via = "coerced"
              /\ \A k \in 1..Len(Rejoined) : ~IsLink(SubSeq(Rejoined, 1, k), links)) =>
              p_res.path = Rejoined

\* a path outside the root with two components named like the root was
\* rejoined below the root from the components after the second
C14_Witness ==
    /\ p_res.ok
    /\ p_res.via = "coerced"
    /\ Cardinality(NameMatches) = 2
    /\ LastMatch < Len(CanonicalInput)
    /\ p_res.path = Rejoined

(***************************************************************************)
(* Claims about find_large_files                                           *)
(***************************************************************************)
\* the files below the directory scanned that are at least as large as asked
Qualifying ==
    { q \in ScannedFiles(RelOf(Target(f_call.path).path), fs) :
        fs[q].size >= f_call.min_size_mb * MiB }

\* C15: the list find_large_files returns holds only files of at least the
\* minimum size, in non-increasing order of their size in bytes, at most
\* limit of them, and leaves out no qualifying file larger in bytes than one
\* it returns.
C15_LargestFirst ==
    (f_call.op = "find_large_files" /\ f_out.ok) =>
        LET files == f_out.files
        IN /\ \A i \in DOMAIN files : files[i].size_bytes >= f_call.min_size_mb * MiB
           /\ \A i, j \in DOMAIN files : i < j => files[i].size_bytes >= files[j].size_bytes
           /\ Len(files) <= f_call.limit
           /\ \A q \in Qualifying :
                (\A i \in DOMAIN files : files[i].path # RelStr(q)) =>
                    \A i \in DOMAIN files : fs[q].size <= files[i].size_bytes

====
